---- MODULE Spec2Model ----
(***************************************************************************)
(* Model of sigil: the magic-number trie (src/src/trie.rs), the file       *)
(* reader (src/src/file_manager.rs) and the verification driver            *)
(* (src/src/lib.rs).                                                       *)
(*                                                                         *)
(* A trie node is identified by the byte path that leads to it from the    *)
(* root, so the tree of TrieNode values is the function                    *)
(*     root : (set of byte paths, closed under prefixes) -> Option<String> *)
(* whose domain is the set of nodes and whose value is a node's file_type. *)
(* The children of node p are the paths Append(p, b) of the domain.        *)
(* Option<T> is a set: None is {} and Some(x) is {x}.  Strings are         *)
(* sequences of characters, so that contains() and to_uppercase() are      *)
(* computed and not assumed.                                               *)
(***************************************************************************)
EXTENDS Integers, Sequences, FiniteSets, TLC

----------------------------------------------------------------------------
(* Bounds of the model *)

\* longest catalogue Load reads
MaxEntries == 3
\* longest byte buffer handed to search
MaxBufLen == 4

\* longest catalogue and longest buffer where the offsets are 0 and 4
MaxEntriesFar == 3
MaxBufLenFar == 5

\* longest catalogue, and longest buffer, where a load is replayed
MaxEntriesLoad == 2
MaxBufLenLoad == 3
\* most insertions into one trie
MaxInserts == 3

\* most files in one batch
MaxBatch == 2

\* byte values of signatures and file contents
Bytes == {1, 2}
\* signature lengths of catalogue entries (an empty signature parses too)
SigLens == {0, 1, 2}
\* offsets of catalogue entries
Offsets == {0, 1}
\* offsets and signature lengths of catalogue entries where offset 0
\* competes with offset 4
FarOffsets == {0, 4}
FarSigLens == {1, 2}
\* type labels of catalogue entries
Types == {<<"P", "N", "G">>, <<"G", "Z">>}

\* A file name extension is an OsStr: a sequence of units, one of which,
\* InvalidUnit, stands for a byte that is not valid UTF-8.
InvalidUnit == "\\xFF"

\* extensions of the files verified: none, "", "g", "txt", "png" and one
\* that is not valid UTF-8 (Option<&OsStr>, as sets of unit sequences)
Extensions == {{}, {<<>>}, {<<"g">>}, {<<"t", "x", "t">>}, {<<"p", "n", "g">>},
               {<<InvalidUnit>>}}
\* contents of the files verified
Contents == {<<>>, <<1>>, <<2>>, <<1, 2>>}

SeqsOver(S, lens) == UNION {[1..n -> S] : n \in lens}
SeqsUpTo(S, n) == SeqsOver(S, 0..n)

----------------------------------------------------------------------------
(* Option<T> *)

None == {}
Some(x) == {x}
Unwrap(opt) == CHOOSE x \in opt : TRUE

----------------------------------------------------------------------------
(* trie.rs *)

SignatureEntry(t, o, s) == [type |-> t, offset |-> o, signature |-> s]

\* TrieNode::default(): no file_type, no children
TrieNodeDefault == [p \in {<<>>} |-> None]

\* MagicNumberTrie::default()
MagicNumberTrieDefault ==
    [root |-> TrieNodeDefault, max_buffer_size |-> 0, max_offset_len |-> 0,
     max_signature_len |-> 0, possible_offsets |-> <<>>]

\* curr_node.children.entry(byte).or_default(): the child is created, with
\* no file_type and no children, only when curr_node has none for byte
EntryOrDefault(root, curr_node, byte) ==
    LET child == Append(curr_node, byte)
    IN  IF child \in DOMAIN root
        THEN root
        ELSE [p \in DOMAIN root \cup {child} |->
                 IF p = child THEN None ELSE root[p]]

\* the loop of insert from byte i on: the tree with the path created
RECURSIVE InsertWalk(_, _, _)
InsertWalk(root, file_header, i) ==
    IF i > Len(file_header)
    THEN root
    ELSE InsertWalk(EntryOrDefault(root, SubSeq(file_header, 1, i - 1),
                                   file_header[i]),
                    file_header, i + 1)

\* an insert that leaves a label that is already set
insert_first_write_wins(root, file_header, file_type) ==
    LET walked == InsertWalk(root, file_header, 1)
    IN  IF walked[file_header] # None
        THEN walked
        ELSE [walked EXCEPT ![file_header] = Some(file_type)]

\* an insert that puts a fresh node, without children, at the end of the path
insert_fresh_node(root, file_header, file_type) ==
    LET walked == InsertWalk(root, file_header, 1)
        kept == {p \in DOMAIN walked :
                    ~(Len(p) > Len(file_header)
                      /\ SubSeq(p, 1, Len(file_header)) = file_header)}
    IN  [p \in kept |-> IF p = file_header THEN Some(file_type) ELSE walked[p]]

insert(root, file_header, file_type) ==
    [InsertWalk(root, file_header, 1) EXCEPT ![file_header] = Some(file_type)]

\* the loop of trie_match from byte i on, at node curr_node
RECURSIVE MatchWalk(_, _, _, _, _)
MatchWalk(root, curr_node, file_header, i, best_match) ==
    IF i > Len(file_header)
    THEN best_match
    ELSE LET next_node == Append(curr_node, file_header[i])
         IN  IF next_node \in DOMAIN root
             THEN MatchWalk(root, next_node, file_header, i + 1,
                            IF root[next_node] # None
                            THEN root[next_node] ELSE best_match)
             ELSE best_match

\* a walk that keeps the first label it meets
RECURSIVE MatchWalkFirst(_, _, _, _, _)
MatchWalkFirst(root, curr_node, file_header, i, best_match) ==
    IF i > Len(file_header)
    THEN best_match
    ELSE LET next_node == Append(curr_node, file_header[i])
         IN  IF next_node \in DOMAIN root
             THEN MatchWalkFirst(root, next_node, file_header, i + 1,
                                 IF best_match = None
                                 THEN root[next_node] ELSE best_match)
             ELSE best_match

trie_match_first_wins(root, file_header) ==
    MatchWalkFirst(root, <<>>, file_header, 1, None)

trie_match(root, file_header) == MatchWalk(root, <<>>, file_header, 1, None)

\* what a search that panicked leaves in place of its result
Panicked == {<<"panicked">>}

\* &file_header[offset..] is in bounds; out of bounds the index panics
SliceInBounds(file_header, offset) == offset <= Len(file_header)

\* the loop of search from the k-th possible offset on
RECURSIVE SearchFrom(_, _, _)
SearchFrom(trie, file_header, k) ==
    IF k > Len(trie.possible_offsets)
    THEN None
    ELSE LET offset == trie.possible_offsets[k]
         IN  IF Len(file_header) < offset
             THEN SearchFrom(trie, file_header, k + 1)
             ELSE IF ~SliceInBounds(file_header, offset)
             THEN Panicked
             ELSE LET slice_to_check ==
                          SubSeq(file_header, offset + 1, Len(file_header))
                      file_type == trie_match(trie.root, slice_to_check)
                  IN  IF file_type # None
                      THEN file_type
                      ELSE SearchFrom(trie, file_header, k + 1)

\* a search that slices at every offset, also one beyond the buffer
RECURSIVE SearchFromUnguarded(_, _, _)
SearchFromUnguarded(trie, file_header, k) ==
    IF k > Len(trie.possible_offsets)
    THEN None
    ELSE LET offset == trie.possible_offsets[k]
         IN  IF ~SliceInBounds(file_header, offset)
             THEN Panicked
             ELSE LET file_type ==
                          trie_match(trie.root,
                                     SubSeq(file_header, offset + 1,
                                            Len(file_header)))
                  IN  IF file_type # None
                      THEN file_type
                      ELSE SearchFromUnguarded(trie, file_header, k + 1)

search_unguarded(trie, file_header) == SearchFromUnguarded(trie, file_header, 1)

search(trie, file_header) == SearchFrom(trie, file_header, 1)

\* a sort in descending order
RECURSIVE SortedVecDescending(_)
SortedVecDescending(set) ==
    IF set = {}
    THEN <<>>
    ELSE LET most == CHOOSE x \in set : \A y \in set : y <= x
         IN  <<most>> \o SortedVecDescending(set \ {most})

\* Vec::sort of the collected HashSet: ascending, without duplicates
RECURSIVE SortedVec(_)
SortedVec(set) ==
    IF set = {}
    THEN <<>>
    ELSE LET least == CHOOSE x \in set : \A y \in set : x <= y
         IN  <<least>> \o SortedVec(set \ {least})

\* one iteration of the loop of from_file; acc carries trie and unique_offsets
LoadEntry(acc, entry) ==
    LET signature_len == Len(entry.signature)
    IN  [root |-> insert(acc.root, entry.signature, entry.type),
         unique_offsets |-> acc.unique_offsets \cup {entry.offset},
         max_offset_len |-> IF acc.max_offset_len < entry.offset
                            THEN entry.offset ELSE acc.max_offset_len,
         max_signature_len |-> IF acc.max_signature_len < signature_len
                               THEN signature_len ELSE acc.max_signature_len]

RECURSIVE LoadLoop(_, _, _)
LoadLoop(acc, signatures, i) ==
    IF i > Len(signatures)
    THEN acc
    ELSE LoadLoop(LoadEntry(acc, signatures[i]), signatures, i + 1)

\* a loader that sizes the buffer for the largest single entry
from_file_per_entry_max(signatures) ==
    LET start == [root |-> TrieNodeDefault, unique_offsets |-> {},
                  max_offset_len |-> 0, max_signature_len |-> 0]
        acc == LoadLoop(start, signatures, 1)
        ends == {signatures[i].offset + Len(signatures[i].signature) :
                    i \in DOMAIN signatures}
    IN  [root |-> acc.root,
         max_buffer_size |->
             IF ends = {} THEN 0 ELSE CHOOSE x \in ends : \A y \in ends : y <= x,
         max_offset_len |-> acc.max_offset_len,
         max_signature_len |-> acc.max_signature_len,
         possible_offsets |-> SortedVec(acc.unique_offsets)]

\* from_file on a catalogue that parsed to the entry list signatures
from_file(signatures) ==
    LET start == [root |-> MagicNumberTrieDefault.root,
                  unique_offsets |-> {},
                  max_offset_len |-> MagicNumberTrieDefault.max_offset_len,
                  max_signature_len |->
                      MagicNumberTrieDefault.max_signature_len]
        acc == LoadLoop(start, signatures, 1)
    IN  [root |-> acc.root,
         max_buffer_size |-> acc.max_offset_len + acc.max_signature_len,
         max_offset_len |-> acc.max_offset_len,
         max_signature_len |-> acc.max_signature_len,
         possible_offsets |-> SortedVec(acc.unique_offsets)]

----------------------------------------------------------------------------
(* file_manager.rs *)

\* OsStr::to_str: the text, unless a unit is not valid UTF-8
to_str(os_str) ==
    IF \E i \in DOMAIN os_str : os_str[i] = InvalidUnit
    THEN None
    ELSE Some(os_str)

\* char::to_uppercase on the characters of the model
UpperOf(c) ==
    CASE c = "g" -> "G"
      [] c = "z" -> "Z"
      [] c = "p" -> "P"
      [] c = "n" -> "N"
      [] c = "t" -> "T"
      [] c = "x" -> "X"
      [] OTHER -> c

\* str::to_uppercase
to_uppercase(str) == [i \in DOMAIN str |-> UpperOf(str[i])]

\* str::contains
contains(haystack, needle) ==
    \E k \in 0..(Len(haystack) - Len(needle)) :
        SubSeq(haystack, k + 1, k + Len(needle)) = needle

\* FileManagerError::MissingExtension, as Display prints it
MissingExtension == "File has no extension"
\* the std::io::Error of File::open on a file that cannot be read
OpenError == "Permission denied (os error 13)"

\* the bytes read into vec![0; buffer_size] from a file of the given
\* content, truncated to bytes_read: the first buffer_size bytes, or all of
\* a shorter file
ReadPrefix(content, buffer_size) ==
    SubSeq(content, 1, IF Len(content) < buffer_size
                       THEN Len(content) ELSE buffer_size)

\* Result<Vec<u8>, io::Error>
get_bytes_from_file(file, buffer_size) ==
    IF ~file.readable
    THEN [ok |-> FALSE, error |-> OpenError]
    ELSE [ok |-> TRUE, buffer |-> ReadPrefix(file.content, buffer_size)]

\* path.extension().and_then(OsStr::to_str)
get_file_extension(file) ==
    IF file.extension = None THEN None ELSE to_str(Unwrap(file.extension))

\* Result<FileSignature, Box<dyn Error>>
get_file_info(file, buffer_size) ==
    LET extension == get_file_extension(file)
    IN  IF extension = None
        THEN [ok |-> FALSE, error |-> MissingExtension]
        ELSE LET bytes == get_bytes_from_file(file, buffer_size)
             IN  IF ~bytes.ok
                 THEN [ok |-> FALSE, error |-> bytes.error]
                 ELSE [ok |-> TRUE,
                       declared_type |-> to_uppercase(Unwrap(extension)),
                       actual_type |-> <<>>,
                       buffer |-> bytes.buffer]

----------------------------------------------------------------------------
(* lib.rs *)

NotAFile == "The provided path is not a file."
Unknown == <<"U", "n", "k", "n", "o", "w", "n">>

\* FileResult
Correct(path) == [tag |-> "Correct", path |-> path]
Incorrect(path, declared_type, actual_type) ==
    [tag |-> "Incorrect", path |-> path, declared_type |-> declared_type,
     actual_type |-> actual_type]
Error(path, error_message) ==
    [tag |-> "Error", path |-> path, error_message |-> error_message]

\* a process_file that asks whether the declared type contains the actual
process_file_contains_swapped(file, trie) ==
    IF ~file.is_file
    THEN Error(file, NotAFile)
    ELSE LET file_info == get_file_info(file, trie.max_buffer_size)
         IN  IF ~file_info.ok
             THEN Error(file, file_info.error)
             ELSE LET actual_type == search(trie, file_info.buffer)
                  IN  IF actual_type = None
                      THEN Incorrect(file, file_info.declared_type, Unknown)
                      ELSE IF contains(file_info.declared_type,
                                       Unwrap(actual_type))
                      THEN Correct(file)
                      ELSE Incorrect(file, file_info.declared_type,
                                     Unwrap(actual_type))

process_file(file, trie) ==
    IF ~file.is_file
    THEN Error(file, NotAFile)
    ELSE LET file_info == get_file_info(file, trie.max_buffer_size)
         IN  IF ~file_info.ok
             THEN Error(file, file_info.error)
             ELSE LET actual_type == search(trie, file_info.buffer)
                  IN  IF actual_type = None
                      THEN Incorrect(file, file_info.declared_type, Unknown)
                      ELSE IF contains(Unwrap(actual_type),
                                       file_info.declared_type)
                      THEN Correct(file)
                      ELSE Incorrect(file, file_info.declared_type,
                                     Unwrap(actual_type))

\* the counts report prints
report(results) ==
    [total_files |-> Len(results),
     correct_files |->
         Cardinality({i \in DOMAIN results : results[i].tag = "Correct"}),
     incorrect_files |->
         Cardinality({i \in DOMAIN results : results[i].tag = "Incorrect"}),
     error_files |->
         Cardinality({i \in DOMAIN results : results[i].tag = "Error"})]

----------------------------------------------------------------------------
(* State *)

VARIABLES
    trie,         \* the MagicNumberTrie that run builds
    pc,           \* where run is: "start", "ready" (from_file returned), "done"
    catalog,      \* the set of entries the catalogue read by from_file held
    signatures,   \* the entries in the order they were inserted, where a
                  \* specification keeps the order
    file_header,  \* the buffer handed to search
    found,        \* what search returned
    path_list,    \* the files run verifies
    outcome,      \* the FileResult of each file a worker has processed
    results,      \* the collected Vec<FileResult>
    summary       \* the counts report printed

searchVars == <<file_header, found>>
verifyVars == <<path_list, outcome, results, summary>>
vars == <<trie, pc, catalog, signatures, searchVars, verifyVars>>

Entries == {SignatureEntry(t, o, s) :
               t \in Types, o \in Offsets, s \in SeqsOver(Bytes, SigLens)}
Catalogs == SeqsUpTo(Entries, MaxEntries)
Buffers == SeqsUpTo(Bytes, MaxBufLen)

Range(seq) == {seq[i] : i \in DOMAIN seq}

Init ==
    /\ trie = MagicNumberTrieDefault
    /\ pc = "start"
    /\ catalog = {}
    /\ signatures = <<>>
    /\ file_header = <<>>
    /\ found = None
    /\ path_list = <<>>
    /\ outcome = <<>>
    /\ results = <<>>
    /\ summary = report(<<>>)

\* run, lib.rs:63-73: the trie is built from a catalogue of cats
LoadFrom(cats) ==
    /\ pc = "start"
    /\ \E entries \in cats :
          /\ trie' = from_file(entries)
          /\ catalog' = Range(entries)
    /\ pc' = "ready"
    /\ UNCHANGED <<signatures, searchVars, verifyVars>>

\* run on the path of one file, lib.rs:85-87: the search of process_file on
\* the bytes of the file
SearchIn(bufs) ==
    /\ pc = "ready"
    /\ \E buffer \in bufs :
          /\ file_header' = buffer
          /\ found' = search(trie, buffer)
    /\ pc' = "done"
    /\ UNCHANGED <<trie, catalog, signatures, verifyVars>>

Load == LoadFrom(Catalogs)
Search == SearchIn(Buffers)

Next == Load \/ Search

Spec == Init /\ [][Next]_vars

\* from_file, keeping the order of the entries it read
LoadFile ==
    /\ pc = "start"
    /\ \E entries \in SeqsUpTo(Entries, MaxEntriesLoad) :
          /\ trie' = from_file(entries)
          /\ catalog' = Range(entries)
          /\ signatures' = entries
    /\ pc' = "ready"
    /\ UNCHANGED <<searchVars, verifyVars>>

SearchLoaded ==
    SearchIn(SeqsUpTo(Bytes, MaxBufLenLoad))

NextLoad == LoadFile \/ SearchLoaded

SpecLoad == Init /\ [][NextLoad]_vars

\* trie.insert(&entry.signature, entry.type), trie.rs:65, one call at a time
InsertEntry ==
    /\ pc = "start"
    /\ Len(signatures) < MaxInserts
    /\ \E entry \in Entries :
          /\ trie' = [trie EXCEPT
                         !.root = insert(@, entry.signature, entry.type)]
          /\ signatures' = Append(signatures, entry)
    /\ UNCHANGED <<pc, catalog, searchVars, verifyVars>>

NextInsert == InsertEntry

SpecInsert == Init /\ [][NextInsert]_vars

\* the same run on catalogues whose offsets are 0 and 4
FarEntries == {SignatureEntry(t, o, s) :
                  t \in Types, o \in FarOffsets,
                  s \in SeqsOver(Bytes, FarSigLens)}

LoadFar == LoadFrom(SeqsUpTo(FarEntries, MaxEntriesFar))
SearchFar == SearchIn(SeqsUpTo(Bytes, MaxBufLenFar))

NextFar == LoadFar \/ SearchFar

SpecFar == Init /\ [][NextFar]_vars

\* the catalogues of the runs that verify files: an empty one, and one with
\* a signature for each type
VerifyCatalogs ==
    {<<>>,
     <<SignatureEntry(<<"P", "N", "G">>, 0, <<1>>),
       SignatureEntry(<<"G", "Z">>, 0, <<2>>)>>}

\* what a path of the batch may point to when process_file looks at it: a
\* directory or nothing, a file that cannot be opened, a readable file
Files ==
    {[is_file |-> FALSE, extension |-> e, readable |-> FALSE, content |-> <<>>] :
        e \in Extensions}
    \cup {[is_file |-> TRUE, extension |-> e, readable |-> FALSE,
           content |-> <<>>] : e \in Extensions}
    \cup {[is_file |-> TRUE, extension |-> e, readable |-> TRUE, content |-> c] :
           e \in Extensions, c \in Contents}

LoadVerify == LoadFrom(VerifyCatalogs)

\* run on a directory, lib.rs:81-84: the paths resolve_path listed are handed
\* to the parallel iterator
StartBatch ==
    /\ pc = "ready"
    /\ \E list \in SeqsUpTo(Files, MaxBatch) : path_list' = list
    /\ outcome' = <<>>
    /\ pc' = "verifying"
    /\ UNCHANGED <<trie, catalog, signatures, searchVars, results, summary>>

\* one worker of the parallel iterator, lib.rs:84: process_file on a path no
\* worker has taken yet, in any order
Worker ==
    /\ pc = "verifying"
    /\ \E i \in DOMAIN path_list \ DOMAIN outcome :
          outcome' = (i :> process_file(path_list[i], trie)) @@ outcome
    /\ UNCHANGED <<trie, pc, catalog, signatures, searchVars, path_list,
                   results, summary>>

\* a run that stops collecting at the first Error
ReportUntilError ==
    /\ pc = "verifying"
    /\ DOMAIN outcome = DOMAIN path_list
    /\ LET errors == {i \in DOMAIN outcome : outcome[i].tag = "Error"}
           last == IF errors = {}
                   THEN Len(path_list)
                   ELSE (CHOOSE i \in errors : \A j \in errors : i <= j) - 1
       IN  results' = [i \in 1..last |-> outcome[i]]
    /\ summary' = report(results')
    /\ pc' = "reported"
    /\ UNCHANGED <<trie, catalog, signatures, searchVars, path_list, outcome>>

\* collect() and report(results), lib.rs:84 and 89, once every worker is done
Report ==
    /\ pc = "verifying"
    /\ DOMAIN outcome = DOMAIN path_list
    /\ results' = [i \in DOMAIN path_list |-> outcome[i]]
    /\ summary' = report(results')
    /\ pc' = "reported"
    /\ UNCHANGED <<trie, catalog, signatures, searchVars, path_list, outcome>>

\* run on a path that is no directory, lib.rs:85-89
RunOnFile ==
    /\ pc = "ready"
    /\ \E file \in Files :
          /\ path_list' = <<file>>
          /\ outcome' = <<process_file(file, trie)>>
    /\ results' = outcome'
    /\ summary' = report(results')
    /\ pc' = "reported"
    /\ UNCHANGED <<trie, catalog, signatures, searchVars>>

NextVerify == LoadVerify \/ StartBatch \/ Worker \/ Report \/ RunOnFile

SpecVerify == Init /\ [][NextVerify]_vars

----------------------------------------------------------------------------
(* Vocabulary of the properties *)

IsPrefix(s, t) == Len(s) <= Len(t) /\ SubSeq(t, 1, Len(s)) = s
IsStrictPrefix(s, t) == IsPrefix(s, t) /\ Len(s) < Len(t)

\* the bytes of s stand in buffer from index offset on
OccursAt(s, buffer, offset) ==
    /\ offset + Len(s) <= Len(buffer)
    /\ SubSeq(buffer, offset + 1, offset + Len(s)) = s

SetMax(S) == IF S = {} THEN 0 ELSE CHOOSE x \in S : \A y \in S : y <= x

\* the non-empty signatures of cat, whatever their declared offset, that are
\* a prefix of slice
Matching(cat, slice) ==
    {e \in cat : e.signature # <<>> /\ IsPrefix(e.signature, slice)}

\* the entries of cat with the longest signature that is a prefix of slice
LongestMatching(cat, slice) ==
    {e \in Matching(cat, slice) :
        \A f \in Matching(cat, slice) : Len(f.signature) <= Len(e.signature)}

SliceAt(buffer, offset) == SubSeq(buffer, offset + 1, Len(buffer))

\* no signature of cat matches buffer at a configured offset below offset
NoMatchBelow(cat, buffer, offset) ==
    \A e \in cat :
        e.offset < offset /\ e.offset <= Len(buffer)
            => Matching(cat, SliceAt(buffer, e.offset)) = {}

----------------------------------------------------------------------------
(* Properties of search, checked under Spec *)

\* A and B are declared at one offset with different labels, A is a strict
\* prefix of B, and the bytes of B stand in buffer at that offset
PrefixPair(A, B, buffer) ==
    /\ A.offset = B.offset
    /\ A.type # B.type
    /\ IsStrictPrefix(A.signature, B.signature)
    /\ OccursAt(B.signature, buffer, B.offset)

LabelsOf(entries) == {Some(e.type) : e \in entries}

\* the catalogue keeps to its format: every signature is non-empty and no
\* byte sequence is given two types
WellFormed(cat) ==
    /\ \A e \in cat : e.signature # <<>>
    /\ \A e \in cat, f \in cat : e.signature = f.signature => e.type = f.type

\* every signature of cat that stands in buffer at a configured offset is
\* declared, with its type, at that offset: on such a search the trie shared
\* by all offsets returns nothing an anchored one would not (see C3)
AnchoredMatches(cat, buffer) ==
    \A e \in cat, f \in cat :
        OccursAt(e.signature, buffer, f.offset)
            => SignatureEntry(e.type, f.offset, e.signature) \in cat

\* C1 as stated: whenever the catalogue holds A and B at the same offset, A
\* a strict prefix of B, and the buffer holds the bytes of B at that offset,
\* search returns the label of B and not the label of A.  Stated for the
\* well-formed catalogues and the searches where every match is anchored, so
\* that its failure owes nothing to empty signatures or to C3.
C1_ReturnsLabelOfB ==
    pc = "done" /\ WellFormed(catalog)
                /\ AnchoredMatches(catalog, file_header) =>
        \A A \in catalog, B \in catalog :
            PrefixPair(A, B, file_header)
                => found = Some(B.type) /\ found # Some(A.type)

\* C1 amended: for such A and B the walk of the slice at their offset returns
\* the label of a catalogue entry whose signature is the longest catalogue
\* signature that is a prefix of the slice, which is at least as long as B;
\* search returns a match, and returns that label unless a catalogue
\* signature matches at a smaller configured offset.
C1_LongestSignatureWins ==
    pc = "done" =>
        \A A \in catalog, B \in catalog :
            PrefixPair(A, B, file_header) =>
                LET slice == SliceAt(file_header, B.offset)
                    best == LongestMatching(catalog, slice)
                IN  /\ trie_match(trie.root, slice) \in LabelsOf(best)
                    /\ \A e \in best : Len(e.signature) >= Len(B.signature)
                    /\ found \notin {None, Panicked}
                    /\ NoMatchBelow(catalog, file_header, B.offset)
                           => found \in LabelsOf(best)
                    /\ NoMatchBelow(catalog, file_header, B.offset)
                         /\ best = {B}
                           => found = Some(B.type)

\* a search where B, and not its prefix A, was returned
C1_Witness ==
    /\ pc = "done"
    /\ \E A \in catalog, B \in catalog :
          /\ PrefixPair(A, B, file_header)
          /\ A.signature # <<>>
          /\ found = Some(B.type)

\* C3 as stated: a label returned for a (well-formed) catalogue is the type
\* of a catalogue entry whose signature stands in the buffer at that entry's
\* own offset.
C3_OffsetAnchoring ==
    pc = "done" /\ WellFormed(catalog) /\ found # None =>
        \E e \in catalog :
            /\ found = Some(e.type)
            /\ OccursAt(e.signature, file_header, e.offset)

ExampleEntryA == SignatureEntry(<<"P", "N", "G">>, 2, <<1, 2, 1, 2>>)
ExampleEntryB == SignatureEntry(<<"G", "Z">>, 0, <<2, 1, 2>>)

C7_NoMatchOnShortInput ==
    pc = "done" /\ (\A e \in catalog : Len(file_header) < e.offset)
        => found = None

\* a search of a buffer shorter than the only configured offset
C7_Witness ==
    /\ pc = "done"
    /\ catalog # {}
    /\ \A e \in catalog : Len(file_header) < e.offset /\ e.signature # <<>>

----------------------------------------------------------------------------
(* Offset precedence, checked under SpecFar *)

\* S0 is declared at offset 0 and stands at index 0 of buffer, S4 is another
\* signature, declared at offset 4, that stands at index 4
BothPresent(S0, S4, buffer) ==
    /\ S0.offset = 0
    /\ S4.offset = 4
    /\ S0.type # S4.type
    /\ S0.signature # S4.signature
    /\ OccursAt(S0.signature, buffer, 0)
    /\ OccursAt(S4.signature, buffer, 4)

\* C2 as stated: when a signature declared at offset 0 stands at index 0 and
\* another declared at offset 4 stands at index 4, search returns the label
\* of the offset-0 signature.  Stated for the well-formed catalogues and the
\* searches where every match is anchored, so that its failure owes nothing
\* to empty signatures or to C3.
C2_ReturnsLabelOfS0 ==
    pc = "done" /\ WellFormed(catalog)
                /\ AnchoredMatches(catalog, file_header) =>
        \A S0 \in catalog, S4 \in catalog :
            BothPresent(S0, S4, file_header) => found = Some(S0.type)

\* C2 amended: in that case search returns the match of the walk at index 0,
\* whatever stands at index 4: the label of a catalogue entry whose signature
\* is the longest catalogue signature, of any declared offset, that is a
\* prefix of the buffer; that signature is at least as long as S0's, and the
\* label is S0's when S0 alone has it.
C2_OffsetZeroMatchWins ==
    pc = "done" =>
        \A S0 \in catalog, S4 \in catalog :
            BothPresent(S0, S4, file_header) /\ S0.signature # <<>> =>
                LET best == LongestMatching(catalog, file_header)
                IN  /\ found \in LabelsOf(best)
                    /\ \A e \in best : Len(e.signature) >= Len(S0.signature)
                    /\ best = {S0} => found = Some(S0.type)

\* a search that returned the offset-0 label although the walk at index 4
\* finds the other one
C2_Witness ==
    /\ pc = "done"
    /\ \E S0 \in catalog, S4 \in catalog :
          /\ BothPresent(S0, S4, file_header)
          /\ S0.signature # <<>>
          /\ S4.signature # <<>>
          /\ found = Some(S0.type)
          /\ trie_match(trie.root, SliceAt(file_header, 4)) = Some(S4.type)

----------------------------------------------------------------------------
(* Insertion, checked under SpecInsert *)

\* the positions at which exactly the byte sequence s was inserted
InsertionsOf(s) == {i \in DOMAIN signatures : signatures[i].signature = s}

\* the nodes the insertions made: every prefix of an inserted byte sequence
NodesOf(entries) ==
    {<<>>} \cup UNION {{SubSeq(entries[i].signature, 1, n) :
                           n \in 0..Len(entries[i].signature)} :
                       i \in DOMAIN entries}

\* every node carries the label of the last insertion of exactly its byte
\* sequence, and none when there was no such insertion
LastWriteWins ==
    /\ DOMAIN trie.root = NodesOf(signatures)
    /\ \A s \in DOMAIN trie.root :
          trie.root[s] = IF InsertionsOf(s) = {}
                         THEN None
                         ELSE Some(signatures[SetMax(InsertionsOf(s))].type)

\* an insertion of a byte sequence inserted before adds no node and changes
\* no label but the one at the end of its path
ReinsertReuses ==
    (/\ Len(signatures') = Len(signatures) + 1
     /\ InsertionsOf(signatures'[Len(signatures')].signature) # {})
        => /\ DOMAIN trie'.root = DOMAIN trie.root
           /\ \A p \in DOMAIN trie.root :
                 p # signatures'[Len(signatures')].signature
                     => trie'.root[p] = trie.root[p]

\* C10: after any sequence of insertions the label stored for a byte
\* sequence is that of the most recent insertion of exactly that sequence;
\* inserting a byte sequence again adds no node and changes no label other
\* than the one on its terminal node.
C10_LastWriteWins == []LastWriteWins /\ [][ReinsertReuses]_vars

\* a byte sequence that was inserted twice, with two labels, and that has a
\* node below it: the node carries the later label
C10_Witness ==
    \E i \in DOMAIN signatures, j \in DOMAIN signatures :
        /\ i < j
        /\ signatures[i].signature = signatures[j].signature
        /\ signatures[i].signature # <<>>
        /\ signatures[i].type # signatures[j].type
        /\ trie.root[signatures[j].signature] = Some(signatures[j].type)
        /\ \E p \in DOMAIN trie.root : IsStrictPrefix(signatures[j].signature, p)

----------------------------------------------------------------------------
(* Loading a catalogue with an entry repeated, checked under SpecLoad *)

\* loading the catalogue with its i-th entry appended once more gives a trie
\* with the same max_buffer_size and the same search result on buffer
SameWithRepeated(i, buffer) ==
    LET twice == from_file(Append(signatures, signatures[i]))
    IN  /\ twice.max_buffer_size = trie.max_buffer_size
        /\ search(twice, buffer) = found

\* C6 as stated: appending any entry of the catalogue a second time changes
\* neither max_buffer_size nor the result of search on any buffer.
C6_RepeatedEntryChangesNothing ==
    pc = "done" =>
        \A i \in DOMAIN signatures : SameWithRepeated(i, file_header)

\* no later entry of the catalogue gives the byte sequence of the i-th
\* another type
LastForItsBytes(i) ==
    \A j \in DOMAIN signatures :
        j > i /\ signatures[j].signature = signatures[i].signature
            => signatures[j].type = signatures[i].type

\* C6 amended: appending a second time an entry whose type is the one the
\* catalogue gives last to its byte sequence (any entry of a catalogue that
\* gives no byte sequence two types) changes neither max_buffer_size nor the
\* result of search on any buffer.
C6_RepeatedLastEntryChangesNothing ==
    pc = "done" =>
        \A i \in DOMAIN signatures :
            LastForItsBytes(i) => SameWithRepeated(i, file_header)

\* a search that returned the type of an entry which is a prefix of another
\* entry, in a catalogue where repeating it is covered
C6_Witness ==
    /\ pc = "done"
    /\ \E i \in DOMAIN signatures, j \in DOMAIN signatures :
          /\ LastForItsBytes(i)
          /\ IsStrictPrefix(signatures[i].signature, signatures[j].signature)
          /\ signatures[i].signature # <<>>
          /\ found = Some(signatures[i].type)

----------------------------------------------------------------------------
(* Verification, checked under SpecVerify *)

\* the classification C8 states for a file with the given extension text and
\* content: by the label search returns for the bytes read
PolicyHolds(file, text, result) ==
    LET declared == to_uppercase(text)
        actual == search(trie, ReadPrefix(file.content, trie.max_buffer_size))
    IN  /\ result.tag # "Error"
        /\ result.tag = "Correct"
              <=> actual # None /\ contains(Unwrap(actual), declared)
        /\ actual # None /\ ~contains(Unwrap(actual), declared)
              => result = Incorrect(file, declared, Unwrap(actual))
        /\ actual = None => result = Incorrect(file, declared, Unknown)

\* C8 as stated: a readable regular file with an extension is Correct exactly
\* when search returned a label that contains the upper-cased extension,
\* Incorrect with that label when it does not, Incorrect with "Unknown" when
\* search returned nothing, and never Error.
C8_VerificationPolicy ==
    \A i \in DOMAIN outcome :
        LET file == path_list[i]
        IN  file.is_file /\ file.readable /\ file.extension # None
                => PolicyHolds(file, Unwrap(file.extension), outcome[i])

\* C8 for the extensions that are valid UTF-8: what holds of process_file
C8_PolicyForTextExtensions ==
    \A i \in DOMAIN outcome :
        LET file == path_list[i]
        IN  file.is_file /\ file.readable /\ get_file_extension(file) # None
                => PolicyHolds(file, Unwrap(file.extension), outcome[i])

\* the per-file failures C9 names
Failing(file) ==
    ~file.is_file \/ file.extension = None \/ ~file.readable

RemoveAt(seq, k) == SubSeq(seq, 1, k - 1) \o SubSeq(seq, k + 1, Len(seq))

\* the results of a batch, file by file
ResultsOf(list) == [i \in DOMAIN list |-> process_file(list[i], trie)]

====
